---- MODULE Spec2Model ----
(***************************************************************************)
(* Credit-based document scanner backend: the start of the database, the   *)
(* registration, /scan and credit request handlers, the daily credit reset *)
(* and the similarity metric, modelled as a state machine.  Every awaited  *)
(* database statement, hash or file operation is one atomic step; the      *)
(* synchronous code that follows an await runs in the step that completes  *)
(* the awaited operation.                                                  *)
(*                                                                         *)
(* Texts are sequences of UTF-16 code units and files are sequences of     *)
(* bytes.  A similarity <<num, den>> stands for the double the handler     *)
(* computes as 1 - distance / maxLength with maxLength = den and           *)
(* distance = den - num; the percentage is computed from that double.      *)
(***************************************************************************)
EXTENDS Integers, Sequences, FiniteSets, TLC

\* ------------------------------------------------------------------ bounds
MaxCalls == 3          \* approve calls received and credit requests stored in
                       \* one behaviour of SpecDesk
MaxDayCalls == 2       \* the same and the scans received in one behaviour of
                       \* Spec or SpecDay, and the same in one of SpecLedger
MaxRegisters == 2      \* registrations received in one behaviour of Spec
MaxRaceScans == 2      \* scan requests received in one behaviour of a race
MaxCorpusScans == 3    \* scan requests received in one behaviour of SpecCorpus
MaxTextLen == 3        \* length of the texts calculateSimilarity is called with
MaxClock == 2          \* the last value Date.now() takes

\* ------------------------------------------------------- program constants
DefaultCredits == 20   \* users.credits DEFAULT / the reset value
AdminCredits == 9999   \* the balance the admin is created with
ScanCost == 1          \* credits one scan costs
PercentScale == 100    \* similarity * 100
FixedDigits == 2       \* toFixed(2)

\* ------------------------------------------------------------------- texts
\* "HS" is a lone surrogate code unit, "RC" is U+FFFD.
TextEmpty == <<>>
TextA == <<"a", "a", "a", "a", "a">>
TextB == <<"a", "a", "a", "b", "b">>
TextS == <<"HS", "a", "a", "a", "a">>
Texts == {TextEmpty, TextA}
CorpusTexts == {TextA, TextB, TextS}
FileNames == {"", "a.txt"}
CorpusFileNames == {"a.txt"}
Alphabet == {"a", "b"}
SimilarityTexts == UNION {[1..k -> Alphabet] : k \in 0..MaxTextLen}

\* ------------------------------------------------------- similarity metric
Min2(x, y) == IF x < y THEN x ELSE y
Max2(x, y) == IF x > y THEN x ELSE y

\* One row of the edit-distance table: the row of the prefix of a that ends
\* with the code unit ch, from the row prev of the prefix before it.
RECURSIVE LevRow(_, _, _, _)
LevRow(prev, ch, b, row) ==
    IF Len(row) = Len(b) + 1 THEN row
    ELSE LET j == Len(row)
             sub == prev[j] + (IF b[j] = ch THEN 0 ELSE 1)
             del == prev[j + 1] + 1
             ins == row[j] + 1
         IN LevRow(prev, ch, b, Append(row, Min2(sub, Min2(del, ins))))

RECURSIVE LevRows(_, _, _, _)
LevRows(a, b, i, prev) ==
    IF i > Len(a) THEN prev[Len(b) + 1]
    ELSE LevRows(a, b, i + 1, LevRow(prev, a[i], b, <<prev[1] + 1>>))

\* levenshtein.get(str1, str2): the Levenshtein distance of two strings.
levenshtein_get(str1, str2) ==
    LevRows(str1, str2, 1, [j \in 1..(Len(str2) + 1) |-> j - 1])

\* Mutant: two empty texts taken as identical.
calculateSimilarityOfEqual(text1, text2) ==
    IF text1 = text2 THEN <<1, 1>>
    ELSE IF Len(text1) = 0 \/ Len(text2) = 0 THEN <<0, 1>>
    ELSE LET maxLength == Max2(Len(text1), Len(text2))
             distance == levenshtein_get(text1, text2)
         IN <<maxLength - distance, maxLength>>

\* calculateSimilarity(text1, text2): 1 - distance / maxLength as <<num, den>>.
calculateSimilarity(text1, text2) ==
    IF Len(text1) = 0 \/ Len(text2) = 0 THEN <<0, 1>>
    ELSE LET maxLength == Max2(Len(text1), Len(text2))
             distance == levenshtein_get(text1, text2)
         IN <<maxLength - distance, maxLength>>

\* Mutant: the threshold taken as similarity >= 0.6.
AtLeastThreshold(similarity) == 10 * similarity[1] >= 6 * similarity[2]

\* similarity > 0.6
AboveThreshold(similarity) == 10 * similarity[1] > 6 * similarity[2]

\* ------------------------------------------------------------ IEEE doubles
\* A non-negative binary number: an integer written in limbs of LimbBits
\* binary digits, the least significant limb first, and the number frac of
\* its binary digits that stand after the point.
LimbBits == 15

RECURSIVE Pow2(_)
Pow2(n) == IF n = 0 THEN 1 ELSE 2 * Pow2(n - 1)

Base == Pow2(LimbBits)
Binary(limbs, frac) == [limbs |-> limbs, frac |-> frac]
LimbAt(limbs, i) == IF i \in DOMAIN limbs THEN limbs[i] ELSE 0

\* The limbs of the number a sequence of integers writes in the base, its
\* members above the base or below zero carried over to the next.
RECURSIVE Carried(_, _, _)
Carried(digits, i, carry) ==
    IF i > Len(digits)
    THEN (IF carry = 0 THEN <<>>
          ELSE <<carry % Base>> \o Carried(digits, i, carry \div Base))
    ELSE <<(digits[i] + carry) % Base>>
           \o Carried(digits, i + 1, (digits[i] + carry) \div Base)

\* a + b, a - b for a >= b, and a times a natural number below the base.
PlusLimbs(a, b) ==
    Carried([i \in 1..Max2(Len(a), Len(b)) |-> LimbAt(a, i) + LimbAt(b, i)], 1, 0)

MinusLimbs(a, b) ==
    Carried([i \in 1..Max2(Len(a), Len(b)) |-> LimbAt(a, i) - LimbAt(b, i)], 1, 0)

TimesLimbs(a, n) == Carried([i \in DOMAIN a |-> a[i] * n], 1, 0)

\* The limbs of a natural number, and the number that limbs write.
LimbsOf(n) == Carried(<<n>>, 1, 0)

RECURSIVE ValueOf(_)
ValueOf(limbs) ==
    IF Len(limbs) = 0 THEN 0 ELSE limbs[1] + Base * ValueOf(Tail(limbs))

\* The binary digit of weight 2^j.
Bit(limbs, j) == (LimbAt(limbs, j \div LimbBits + 1) \div Pow2(j % LimbBits)) % 2

\* The number of binary digits of a number: those of its highest limb that
\* is not zero and of the limbs below it.
Used(limbs) == {i \in DOMAIN limbs : limbs[i] # 0}
Highest(S) == CHOOSE i \in S : \A k \in S : k <= i
Width(n) == CHOOSE w \in 1..LimbBits : Pow2(w - 1) <= n /\ n < Pow2(w)
BitLengthFrom(limbs, top) == (top - 1) * LimbBits + Width(limbs[top])

BitLength(limbs) ==
    IF Used(limbs) = {} THEN 0 ELSE BitLengthFrom(limbs, Highest(Used(limbs)))

\* The number shifted to the right by a limbs and b digits, and by s digits
\* to the right and to the left.
ShiftLimbs(limbs, a, b) ==
    [i \in DOMAIN limbs |->
        (LimbAt(limbs, i + a) \div Pow2(b))
          + (LimbAt(limbs, i + a + 1) % Pow2(b)) * Pow2(LimbBits - b)]

ShiftRight(limbs, s) == ShiftLimbs(limbs, s \div LimbBits, s % LimbBits)

ShiftLeft(limbs, s) ==
    TimesLimbs([i \in 1..(s \div LimbBits) |-> 0] \o limbs, Pow2(s % LimbBits))

\* x times a natural number below the base, and x - y for x >= y, exactly.
Times(x, n) == Binary(TimesLimbs(x.limbs, n), x.frac)

Aligned(x, frac) == ShiftLeft(x.limbs, frac - x.frac)
MinusAt(x, y, frac) == Binary(MinusLimbs(Aligned(x, frac), Aligned(y, frac)), frac)
Minus(x, y) == MinusAt(x, y, Max2(x.frac, y.frac))

\* The significant binary digits of a double.
Precision == 53

\* Dropping the last extra digits rounds up: the first of them is 1, and
\* another is, or the last digit kept is odd.
RoundsUp(limbs, extra) ==
    /\ Bit(limbs, extra - 1) = 1
    /\ \/ Bit(limbs, extra) = 1
       \/ \E j \in 0..(extra - 2) : Bit(limbs, j) = 1

\* x with its last extra digits dropped, kept being the digits that stay.
Dropped(x, extra, kept) ==
    IF x.frac >= extra THEN Binary(kept, x.frac - extra)
    ELSE Binary(ShiftLeft(kept, extra - x.frac), 0)

RoundedBy(x, extra) ==
    IF extra <= 0 THEN x
    ELSE Dropped(x, extra,
                 IF RoundsUp(x.limbs, extra)
                 THEN PlusLimbs(ShiftRight(x.limbs, extra), <<1>>)
                 ELSE ShiftRight(x.limbs, extra))

\* The double nearest to x, the one with the even last digit on a tie.
RoundToDouble(x) == RoundedBy(x, BitLength(x.limbs) - Precision)

\* The limbs after the point of the quotient.
QuotientLimbs == 5

\* The first n limbs after the point of rem / den, the least significant
\* first, and the remainder they leave, for rem < den < 2 * Base.
RECURSIVE LongDivision(_, _, _, _)
LongDivision(rem, den, n, limbs) ==
    IF n = 0 THEN [limbs |-> limbs, rem |-> rem]
    ELSE LongDivision((rem * Base) % den, den, n - 1,
                      <<(rem * Base) \div den>> \o limbs)

\* The double of a quotient given to more binary digits than a double has:
\* whole and the limbs q.limbs after the point, and a last digit that is 1
\* when the remainder q.rem says that the quotient has further digits.
RoundedQuotient(q, whole) ==
    RoundToDouble(Binary(PlusLimbs(TimesLimbs(q.limbs \o LimbsOf(whole), 2),
                                   <<IF q.rem = 0 THEN 0 ELSE 1>>),
                         QuotientLimbs * LimbBits + 1))

\* The double a / b of two natural numbers, 0 < b < 2 * Base.
Quotient(a, b) ==
    RoundedQuotient(LongDivision(a % b, b, QuotientLimbs, <<>>), a \div b)

\* The double 1 - distance / maxLength that calculateSimilarity returns.
SimilarityDouble(similarity) ==
    RoundToDouble(Minus(Binary(<<1>>, 0),
                        Quotient(similarity[2] - similarity[1], similarity[2])))

\* The double x * n of a double and a natural number below the base.
Product(x, n) == RoundToDouble(Times(x, n))

\* 10^n
RECURSIVE Pow10(_)
Pow10(n) == IF n = 0 THEN 1 ELSE 10 * Pow10(n - 1)

\* The integer nearest to y, the larger one of two.
NearestInteger(y) ==
    ValueOf(ShiftRight(y.limbs, y.frac))
      + (IF y.frac = 0 THEN 0 ELSE Bit(y.limbs, y.frac - 1))

\* The integer n for which n / 10^digits is nearest to x, the larger one of two.
Nearest(x, digits) == NearestInteger(Times(x, Pow10(digits)))

\* The decimal digits of n / unit with two digits after the point, and '%'.
FixedPercent(n, unit) ==
    ToString(n \div unit) \o "."
      \o (IF n % unit < 10 THEN "0" ELSE "") \o ToString(n % unit) \o "%"

\* (similarity * 100).toFixed(2) + '%', computed in doubles.
DoublePercent(similarity) ==
    FixedPercent(Nearest(Product(SimilarityDouble(similarity), PercentScale),
                         FixedDigits),
                 Pow10(FixedDigits))

\* (similarity * 100).toFixed(2) + '%'
ToFixedPercent(similarity) == DoublePercent(similarity)

\* -------------------------------------------------------------- UTF-8
\* The bytes of a text: a code unit of the model other than a surrogate is
\* one byte, written as the code unit; a lone surrogate has no encoding and
\* is written as the three bytes of U+FFFD.
ReplacementBytes == <<"EF", "BF", "BD">>

RECURSIVE Utf8Encode(_)
Utf8Encode(text) ==
    IF Len(text) = 0 THEN <<>>
    ELSE (IF text[1] \in {"HS", "RC"} THEN ReplacementBytes ELSE <<text[1]>>)
           \o Utf8Encode(Tail(text))

IsContinuation(byte) == byte \in {"BF", "BD"}

\* The code unit the bytes EF b2 b3 encode.
ThreeByteUnit(b2, b3) ==
    IF b2 = "BF" THEN (IF b3 = "BD" THEN "RC" ELSE "U+FFFF")
    ELSE (IF b3 = "BD" THEN "U+FF7D" ELSE "U+FF7F")

\* The text of a sequence of bytes: a byte or a cut sequence that encodes
\* nothing reads as U+FFFD.
RECURSIVE Utf8Decode(_)
Utf8Decode(bytes) ==
    IF Len(bytes) = 0 THEN <<>>
    ELSE IF bytes[1] = "EF"
    THEN IF Len(bytes) >= 3 /\ IsContinuation(bytes[2]) /\ IsContinuation(bytes[3])
         THEN <<ThreeByteUnit(bytes[2], bytes[3])>>
                \o Utf8Decode(SubSeq(bytes, 4, Len(bytes)))
         ELSE IF Len(bytes) >= 2 /\ IsContinuation(bytes[2])
         THEN <<"RC">> \o Utf8Decode(SubSeq(bytes, 3, Len(bytes)))
         ELSE <<"RC">> \o Utf8Decode(Tail(bytes))
    ELSE IF IsContinuation(bytes[1]) THEN <<"RC">> \o Utf8Decode(Tail(bytes))
    ELSE <<bytes[1]>> \o Utf8Decode(Tail(bytes))

\* The body of a file after a write of chunk at position: the bytes before
\* and after the chunk stay, a gap before it reads as zero bytes.
WriteAt(body, position, chunk) ==
    [k \in 1..Max2(Len(body), position + Len(chunk)) |->
        IF k > position /\ k <= position + Len(chunk) THEN chunk[k - position]
        ELSE IF k <= Len(body) THEN body[k]
        ELSE "NUL"]

\* The lengths at which a write may stop short of the bytes it was given.
ShortWrites == {2}

\* ------------------------------------------------------------------- state
VARIABLES
    users,       \* the users table: row id -> [username, email, role]
    credits,     \* users.credits, by user id
    requests,    \* the credit_requests table: row id -> [userId, amount, status]
    documents,   \* the documents table: row id -> [id, userId, filePath, fileName]
    files,       \* the upload directory: file path -> the bytes of the file
    clock,       \* Date.now()
    boot,        \* initializeDatabase: its position and the tables created
    register,    \* the /auth/register requests, by request slot
    scan,        \* the /scan requests, by request slot
    approve,     \* the approve-request calls, by request slot
    granted,     \* history: how many times each request's amount was granted
    nScans,      \* history: scan requests received
    nDecides,    \* history: approve calls received
    nRegisters,  \* history: registrations received
    resetFrom,   \* history: the job that has just run, with the balances it
                 \* found and whether its UPDATE was done, else <<>>
    deductions,  \* history: the credits deducted by scans, by user id
    called       \* history: the one-step call just made and its response, else <<>>

vars == <<users, credits, requests, documents, files, clock, boot, register,
          scan, approve, granted, nScans, nDecides, nRegisters, resetFrom,
          deductions, called>>

\* ------------------------------------------------------------------- users
\* The ids of the users, the role of each, and the sessions there can be: none,
\* or that of a user who has logged in.
NoUser == 0            \* req.session.user undefined
UserIds == DOMAIN users
role == [u \in UserIds |-> users[u].role]
Sessions == UserIds \cup {NoUser}

\* The sessions the requests of the model come with: scans and credit
\* requests with none or that of a user of role 'user', decisions with any.
ScanSessions == {NoUser} \cup {u \in UserIds : role[u] = "user"}
CorpusSessions == {u \in UserIds : role[u] = "user"}
RequestSessions == {NoUser} \cup {u \in UserIds : role[u] = "user"}
DecideSessions == Sessions

RegisterSlots == {1, 2}
ScanSlots == {1, 2}
LedgerSlots == {1}
CorpusSlots == {1}
ApproveSlots == {1}
InitCredits == {0, 1, DefaultCredits}

\* ------------------------------------------------------ req.body.amount
\* A value of the JSON body: a number, or a string as its characters.
JsonNumber(n) == [number |-> n]
JsonString(chars) == [string |-> chars]
IsNumber(value) == DOMAIN value = {"number"}

Digits == <<"0", "1", "2", "3", "4", "5", "6", "7", "8", "9">>
IsDigit(ch) == \E d \in DOMAIN Digits : Digits[d] = ch
DigitOf(ch) == (CHOOSE d \in DOMAIN Digits : Digits[d] = ch) - 1

\* The number written by a sequence of digits; 0 for the empty sequence.
RECURSIVE ParseDigits(_)
ParseDigits(chars) ==
    IF Len(chars) = 0 THEN 0
    ELSE 10 * ParseDigits(SubSeq(chars, 1, Len(chars) - 1))
           + DigitOf(chars[Len(chars)])

\* The digits a sequence of characters starts with.
RECURSIVE LeadingDigits(_)
LeadingDigits(chars) ==
    IF Len(chars) = 0 \/ ~IsDigit(chars[1]) THEN <<>>
    ELSE <<chars[1]>> \o LeadingDigits(Tail(chars))

\* The conversion of a value to a number that `<` applies: a string of
\* digits is the number it writes, the empty string is 0, any other string of
\* the model is NaN.
ToNumber(value) ==
    IF IsNumber(value) THEN [nan |-> FALSE, n |-> value.number]
    ELSE IF LeadingDigits(value.string) = value.string
         THEN [nan |-> FALSE, n |-> ParseDigits(value.string)]
         ELSE [nan |-> TRUE, n |-> 0]

\* !value
Falsy(value) == IF IsNumber(value) THEN value.number = 0 ELSE value.string = <<>>

\* value < n, which is false of NaN
LessThan(value, n) == ~ToNumber(value).nan /\ ToNumber(value).n < n

\* What a column of INTEGER affinity holds of a bound value: the integer, or
\* the integer a text writes, or the text itself when it writes none.
StoredInteger(value) ==
    IF IsNumber(value) THEN value
    ELSE IF value.string # <<>> /\ LeadingDigits(value.string) = value.string
         THEN JsonNumber(ParseDigits(value.string))
         ELSE value

\* The number a value stands for in SQL arithmetic: a text counts as the
\* number its leading digits write, 0 when it has none.
SqlNumber(value) ==
    IF IsNumber(value) THEN value.number
    ELSE ParseDigits(LeadingDigits(value.string))

Amounts == {JsonNumber(-1), JsonNumber(0), JsonNumber(2)}
BodyAmounts == Amounts \cup {JsonString(<<"a", "b", "c">>), JsonString(<<"2">>)}

\* `${docId}_${fileName}`: the digits of docId end at the first underscore, so
\* the name is the pair of its two parts.
SavedFileName(docId, fileName) == <<docId, fileName>>

ScanIdle ==
    [pc |-> "idle", session |-> NoUser, text |-> <<>>, fileName |-> "",
     userCredits |-> 0, docId |-> 0, savedFileName |-> SavedFileName(0, ""),
     written |-> 0, docs |-> <<>>, i |-> 0, size |-> 0, buffer |-> <<>>,
     rejected |-> FALSE, matches |-> <<>>, outcome |-> "none",
     creditsLeft |-> 0,
     \* history of the request, read by no handler
     deducted |-> FALSE, wrote |-> FALSE, recorded |-> FALSE, newRow |-> 0,
     readLog |-> <<>>, matchRows |-> <<>>, balanceAfter |-> 0]

ApproveIdle ==
    [pc |-> "idle", session |-> NoUser, requestId |-> 0,
     request |-> [userId |-> 0, amount |-> JsonNumber(0)], outcome |-> "none",
     \* history of the call, read by no handler
     seenStatus |-> "none", didGrant |-> FALSE]

RegisterIdle == [pc |-> "idle", username |-> "", email |-> ""]

\* The row createAdminUser inserts, and the bodies of the registrations.
AdminUser ==
    [username |-> "admin", email |-> "admin@example.com", role |-> "admin"]
Bob == [username |-> "bob", email |-> "bob@example.com", role |-> "user"]
RegisterUsernames == {"", "bob"}
RegisterEmails == {"bob@example.com"}
RegisterPasswords == {"secret"}

\* ------------------------------------------------------ initializeDatabase
\* The statements initializeDatabase awaits in turn, and the tables.
BootSteps ==
    <<"users", "credit_requests", "documents", "index_documents",
      "index_requests", "select", "hash", "insert", "done">>
Tables == {"users", "credit_requests", "documents"}
BootAfter(pc) == BootSteps[(CHOOSE k \in DOMAIN BootSteps : BootSteps[k] = pc) + 1]

\* A statement on a table runs when nothing fails it and the table is there.
Ran(ok, table) == ok /\ table \in boot.tables

\* Nothing requested, nothing scanned, no call in progress.
NothingSubmitted ==
    /\ requests = <<>>
    /\ documents = <<>>
    /\ files = <<>>
    /\ clock = 0
    /\ register = [r \in RegisterSlots |-> RegisterIdle]
    /\ scan = [p \in ScanSlots |-> ScanIdle]
    /\ approve = [a \in ApproveSlots |-> ApproveIdle]
    /\ granted = <<>>
    /\ nScans = 0
    /\ nDecides = 0
    /\ resetFrom = <<>>

\* The server listening on an empty database: initializeDatabase has issued
\* its first statement and no table is there yet.
Init ==
    /\ users = <<>>
    /\ credits = <<>>
    /\ deductions = <<>>
    /\ boot = [pc |-> "users", tables |-> {}]
    /\ nRegisters = 0
    /\ called = <<>>
    /\ NothingSubmitted

\* The users tables a start and the registration of bob leave: the admin
\* inserted before bob or after, or not at all.
StartedUsers == {<<AdminUser, Bob>>, <<Bob, AdminUser>>, <<Bob>>}

\* The response of a registration.
RegisterAnswer(status) == [op |-> "register", status |-> status]

\* The state after a start and the registration of bob that left one of the
\* given tables, bob left with one of the given balances by scans none of
\* which could store its document.  The last step was the INSERT of the
\* last row.
InitWith(tables, balances) ==
    /\ users \in tables
    /\ \E b \in balances :
           /\ credits = [u \in DOMAIN users |->
                            IF users[u].role = "admin" THEN AdminCredits ELSE b]
           /\ deductions = [u \in DOMAIN users |->
                               IF users[u].role = "admin" THEN 0
                               ELSE DefaultCredits - b]
    /\ boot = [pc |-> "done", tables |-> Tables]
    /\ nRegisters = 1
    /\ called = IF users[Len(users)] = Bob THEN RegisterAnswer(201) ELSE <<>>
    /\ NothingSubmitted

\* Started, with each of the tables and the default balance.
InitStarted == InitWith(StartedUsers, {DefaultCredits})

\* Started with the admin first and then bob, with the default balance.
InitScanning == InitWith({<<AdminUser, Bob>>}, {DefaultCredits})

\* The same, bob with the default balance, or with one credit or none left.
InitSpent == InitWith({<<AdminUser, Bob>>}, InitCredits)

\* CREATE TABLE IF NOT EXISTS users / credit_requests / documents: the next
\* statement is issued; a failure ends initializeDatabase in its catch.
BootCreateTable(ok) ==
    /\ boot.pc \in Tables
    /\ boot' = IF ok THEN [pc |-> BootAfter(boot.pc),
                           tables |-> boot.tables \cup {boot.pc}]
               ELSE [boot EXCEPT !.pc = "done"]
    /\ UNCHANGED <<credits, requests, documents, files, clock, scan, approve,
                   granted, nScans, nDecides, deductions, users, register,
                   nRegisters>>

\* CREATE INDEX IF NOT EXISTS, on documents and then on credit_requests.
BootCreateIndex(ok) ==
    /\ boot.pc \in {"index_documents", "index_requests"}
    /\ boot' = [boot EXCEPT !.pc = IF ok THEN BootAfter(boot.pc) ELSE "done"]
    /\ UNCHANGED <<credits, requests, documents, files, clock, scan, approve,
                   granted, nScans, nDecides, deductions, users, register,
                   nRegisters>>

\* createAdminUser: SELECT * FROM users WHERE role = 'admin'; with no admin
\* and ADMIN_PASSWORD set the hash is issued.
BootSelectAdmin(ok, adminPassword) ==
    /\ boot.pc = "select"
    /\ boot' = [boot EXCEPT !.pc =
                   IF /\ Ran(ok, "users")
                      /\ ~\E u \in UserIds : role[u] = "admin"
                      /\ adminPassword
                   THEN "hash" ELSE "done"]
    /\ UNCHANGED <<credits, requests, documents, files, clock, scan, approve,
                   granted, nScans, nDecides, deductions, users, register,
                   nRegisters>>

\* bcrypt.hash(adminPassword, 10); the INSERT is issued.
BootHash(ok) ==
    /\ boot.pc = "hash"
    /\ boot' = [boot EXCEPT !.pc = IF ok THEN "insert" ELSE "done"]
    /\ UNCHANGED <<credits, requests, documents, files, clock, scan, approve,
                   granted, nScans, nDecides, deductions, users, register,
                   nRegisters>>

\* A row with the email or the username is in the table: the UNIQUE columns
\* refuse another.
Taken(username, email) ==
    \E u \in UserIds : users[u].email = email \/ users[u].username = username

\* INSERT INTO users (...) VALUES (?, ?, ?, 'admin', 9999)
BootInsertAdmin(ok) ==
    /\ boot.pc = "insert"
    /\ boot' = [boot EXCEPT !.pc = "done"]
    /\ IF Ran(ok, "users") /\ ~Taken(AdminUser.username, AdminUser.email)
       THEN /\ users' = Append(users, AdminUser)
            /\ credits' = Append(credits, AdminCredits)
            /\ deductions' = Append(deductions, 0)
       ELSE UNCHANGED <<users, credits, deductions>>
    /\ UNCHANGED <<requests, documents, files, clock, scan, approve,
                   granted, nScans, nDecides, register, nRegisters>>

\* ------------------------------------------------------ POST /auth/register
\* The validation of the body; the SELECT is issued.
RegisterReceive(r, username, email, password) ==
    /\ register[r].pc = "idle"
    /\ nRegisters' = nRegisters + 1
    /\ IF username = "" \/ email = "" \/ password = ""
       THEN /\ UNCHANGED register
            /\ called' = RegisterAnswer(400)
       ELSE /\ register' = [register EXCEPT ![r] =
                   [pc |-> "select", username |-> username, email |-> email]]
            /\ called' = <<>>
    /\ UNCHANGED <<credits, requests, documents, files, clock, scan, approve,
                   granted, nScans, nDecides, deductions, users, boot>>

\* SELECT * FROM users WHERE email = ? OR username = ?; the hash is issued
\* when there is no such row.
RegisterSelect(r, ok) ==
    /\ register[r].pc = "select"
    /\ IF ~Ran(ok, "users")
       THEN /\ register' = [register EXCEPT ![r] = RegisterIdle]
            /\ called' = RegisterAnswer(500)
       ELSE IF Taken(register[r].username, register[r].email)
       THEN /\ register' = [register EXCEPT ![r] = RegisterIdle]
            /\ called' = RegisterAnswer(400)
       ELSE /\ register' = [register EXCEPT ![r] = [@ EXCEPT !.pc = "hash"]]
            /\ called' = <<>>
    /\ UNCHANGED <<credits, requests, documents, files, clock, scan, approve,
                   granted, nScans, nDecides, deductions, users, boot,
                   nRegisters>>

\* bcrypt.hash(password, 10); the INSERT is issued.
RegisterHash(r, ok) ==
    /\ register[r].pc = "hash"
    /\ IF ~ok
       THEN /\ register' = [register EXCEPT ![r] = RegisterIdle]
            /\ called' = RegisterAnswer(500)
       ELSE /\ register' = [register EXCEPT ![r] = [@ EXCEPT !.pc = "insert"]]
            /\ called' = <<>>
    /\ UNCHANGED <<credits, requests, documents, files, clock, scan, approve,
                   granted, nScans, nDecides, deductions, users, boot,
                   nRegisters>>

\* INSERT INTO users (username, email, password, role) VALUES (?, ?, ?, 'user'),
\* which the UNIQUE columns refuse when a row has the email or the username.
RegisterInsert(r, ok) ==
    /\ register[r].pc = "insert"
    /\ register' = [register EXCEPT ![r] = RegisterIdle]
    /\ IF Ran(ok, "users") /\ ~Taken(register[r].username, register[r].email)
       THEN /\ users' = Append(users, [username |-> register[r].username,
                                        email |-> register[r].email,
                                        role |-> "user"])
            /\ credits' = Append(credits, DefaultCredits)
            /\ deductions' = Append(deductions, 0)
            /\ called' = RegisterAnswer(201)
       ELSE /\ UNCHANGED <<users, credits, deductions>>
            /\ called' = RegisterAnswer(500)
    /\ UNCHANGED <<requests, documents, files, clock, scan, approve,
                   granted, nScans, nDecides, boot, nRegisters>>

\* Date.now() moves on.  The handlers only compare its values for equality,
\* so it need not run ahead of the number of submissions.
Tick ==
    /\ clock < nScans
    /\ clock < MaxClock
    /\ clock' = clock + 1
    /\ UNCHANGED <<credits, requests, documents, files, scan, approve,
                   granted, nScans, nDecides, deductions, users, boot,
                   register, nRegisters>>

\* ------------------------------------------------------------ POST /scan
\* What is left of a request once its response is sent: the response and the
\* history of the request; the handler's locals are gone unless the response
\* is the 200 that carries them.
ScanEnd(p, rec, outcome) ==
    scan' = [scan EXCEPT ![p] =
        IF outcome = "Completed"
        THEN [rec EXCEPT !.pc = "done", !.outcome = outcome]
        ELSE [ScanIdle EXCEPT !.pc = "done", !.outcome = outcome,
                              !.session = rec.session,
                              !.deducted = rec.deducted, !.wrote = rec.wrote,
                              !.recorded = rec.recorded]]

\* The session check, the validation of the body, and the SELECT being issued.
ScanReceive(p, session, text, fileName) ==
    /\ scan[p].pc \in {"idle", "done"}
    /\ nScans' = nScans + 1
    /\ LET rec == [ScanIdle EXCEPT !.session = session, !.text = text,
                                   !.fileName = fileName]
       IN IF session = NoUser THEN ScanEnd(p, rec, "Unauthorized")
          ELSE IF text = <<>> \/ fileName = "" THEN ScanEnd(p, rec, "ValidationError")
          ELSE scan' = [scan EXCEPT ![p] = [rec EXCEPT !.pc = "check"]]
    /\ UNCHANGED <<credits, requests, documents, files, clock, approve,
                   granted, nDecides, deductions, users, boot, register,
                   nRegisters>>

\* Mutant: the credit is taken before the balance is checked.
ScanCheckCreditsAfterDeduct(p, ok) ==
    /\ scan[p].pc = "check"
    /\ LET rec == [scan[p] EXCEPT !.userCredits = credits[scan[p].session]]
       IN IF ~Ran(ok, "users") THEN ScanEnd(p, scan[p], "Failed")
                      /\ UNCHANGED <<credits, deductions>>
          ELSE /\ credits' = [credits EXCEPT ![scan[p].session] = @ - ScanCost]
               /\ deductions' = [deductions EXCEPT ![scan[p].session] = @ + 1]
               /\ IF rec.userCredits < ScanCost THEN ScanEnd(p, rec, "Rejected")
                  ELSE scan' = [scan EXCEPT ![p] =
                           [rec EXCEPT !.pc = "open", !.deducted = TRUE,
                                       !.docId = clock,
                                       !.savedFileName =
                                           SavedFileName(clock, rec.fileName)]]
    /\ UNCHANGED <<requests, documents, files, clock, approve,
                   granted, nScans, nDecides, users, boot, register,
                   nRegisters>>

\* SELECT credits FROM users WHERE id = ?, then the credit check; the UPDATE
\* is issued when the check passes.
ScanCheckCredits(p, ok) ==
    /\ scan[p].pc = "check"
    /\ LET rec == [scan[p] EXCEPT !.userCredits = credits[scan[p].session]]
       IN IF ~Ran(ok, "users") THEN ScanEnd(p, scan[p], "Failed")
          ELSE IF rec.userCredits < ScanCost THEN ScanEnd(p, rec, "Rejected")
          ELSE scan' = [scan EXCEPT ![p] = [rec EXCEPT !.pc = "deduct"]]
    /\ UNCHANGED <<credits, requests, documents, files, clock, approve,
                   granted, nScans, nDecides, deductions, users, boot,
                   register, nRegisters>>

\* Mutant: the balance read by the SELECT, less one, written back.
ScanDeductFromRead(p, ok) ==
    /\ scan[p].pc = "deduct"
    /\ IF ~Ran(ok, "users")
       THEN /\ ScanEnd(p, scan[p], "Failed")
            /\ UNCHANGED <<credits, deductions>>
       ELSE /\ credits' = [credits EXCEPT ![scan[p].session] =
                               scan[p].userCredits - ScanCost]
            /\ deductions' = [deductions EXCEPT ![scan[p].session] = @ + 1]
            /\ scan' = [scan EXCEPT ![p] =
                   [@ EXCEPT !.pc = "open", !.deducted = TRUE, !.docId = clock,
                             !.savedFileName =
                                 SavedFileName(clock, scan[p].fileName),
                             !.balanceAfter = credits'[scan[p].session]]]
    /\ UNCHANGED <<requests, documents, files, clock, approve,
                   granted, nScans, nDecides, users, boot, register,
                   nRegisters>>

\* UPDATE users SET credits = credits - 1 WHERE id = ?, then docId = Date.now()
\* and the name of the file; the file is opened.
ScanDeduct(p, ok) ==
    /\ scan[p].pc = "deduct"
    /\ IF ~Ran(ok, "users")
       THEN /\ ScanEnd(p, scan[p], "Failed")
            /\ UNCHANGED <<credits, deductions>>
       ELSE /\ credits' = [credits EXCEPT ![scan[p].session] = @ - ScanCost]
            /\ deductions' = [deductions EXCEPT ![scan[p].session] = @ + 1]
            /\ scan' = [scan EXCEPT ![p] =
                   [@ EXCEPT !.pc = "open", !.deducted = TRUE, !.docId = clock,
                             !.savedFileName =
                                 SavedFileName(clock, scan[p].fileName),
                             !.balanceAfter = credits'[scan[p].session]]]
    /\ UNCHANGED <<requests, documents, files, clock, approve,
                   granted, nScans, nDecides, users, boot, register,
                   nRegisters>>

\* fs.promises.writeFile(filePath, text), the open: the file is opened for
\* writing, which creates it or empties the one there is; the first write is
\* issued.
ScanOpenFile(p, ok) ==
    /\ scan[p].pc = "open"
    /\ IF ~ok THEN /\ ScanEnd(p, scan[p], "Failed")
                   /\ UNCHANGED files
       ELSE /\ files' = [q \in DOMAIN files \cup {scan[p].savedFileName} |->
                           IF q = scan[p].savedFileName THEN <<>> ELSE files[q]]
            /\ scan' = [scan EXCEPT ![p] = [@ EXCEPT !.pc = "write"]]
    /\ UNCHANGED <<credits, requests, documents, clock, approve,
                   granted, nScans, nDecides, deductions, users, boot,
                   register, nRegisters>>

\* The bytes of its text that scan p has still to write, and the numbers of
\* them its next write may write: all, or fewer.
BytesLeft(p) == Len(Utf8Encode(scan[p].text)) - scan[p].written
WriteLengths(p) == {BytesLeft(p)} \cup {n \in ShortWrites : n < BytesLeft(p)}

\* fs.promises.writeFile(filePath, text), one write: n of the bytes not yet
\* written go to the file at the position of the descriptor, and the next
\* write is issued, or the close when none is left.  A write that fails
\* writes nothing; the file is closed before writeFile rejects.
ScanWriteFile(p, n, ok) ==
    /\ scan[p].pc = "write"
    /\ LET bytes == Utf8Encode(scan[p].text)
           written == scan[p].written
       IN /\ n \in 1..(Len(bytes) - written)
          /\ IF ~ok
             THEN /\ scan' = [scan EXCEPT ![p] =
                         [@ EXCEPT !.pc = "close", !.rejected = TRUE]]
                  /\ UNCHANGED files
             ELSE /\ files' = [files EXCEPT ![scan[p].savedFileName] =
                         WriteAt(@, written, SubSeq(bytes, written + 1, written + n))]
                  /\ scan' = [scan EXCEPT ![p] =
                         [@ EXCEPT !.written = written + n,
                                   !.pc = IF written + n = Len(bytes)
                                          THEN "close" ELSE "write"]]
    /\ UNCHANGED <<credits, requests, documents, clock, approve,
                   granted, nScans, nDecides, deductions, users, boot,
                   register, nRegisters>>

\* Mutant: a failed writeFile gives the credit back.
ScanCloseFileOrRefund(p, ok) ==
    /\ scan[p].pc = "close"
    /\ IF scan[p].rejected \/ ~ok
       THEN /\ ScanEnd(p, [scan[p] EXCEPT !.deducted = FALSE], "Failed")
            /\ credits' = [credits EXCEPT ![scan[p].session] = @ + ScanCost]
       ELSE /\ scan' = [scan EXCEPT ![p] =
                   [@ EXCEPT !.pc = "insert", !.wrote = TRUE, !.written = 0]]
            /\ UNCHANGED credits
    /\ UNCHANGED <<requests, documents, files, clock, approve,
                   granted, nScans, nDecides, deductions, users, boot,
                   register, nRegisters>>

\* fs.promises.writeFile(filePath, text), the close: writeFile rejects when a
\* write or the close failed, else the INSERT is issued.
ScanCloseFile(p, ok) ==
    /\ scan[p].pc = "close"
    /\ IF scan[p].rejected \/ ~ok
       THEN ScanEnd(p, scan[p], "Failed")
       ELSE scan' = [scan EXCEPT ![p] =
                [@ EXCEPT !.pc = "insert", !.wrote = TRUE, !.written = 0]]
    /\ UNCHANGED <<credits, requests, documents, files, clock, approve,
                   granted, nScans, nDecides, deductions, users, boot,
                   register, nRegisters>>

\* INSERT INTO documents (userId, filePath, fileName); the SELECT is issued.
ScanInsertDocument(p, ok) ==
    /\ scan[p].pc = "insert"
    /\ IF ~Ran(ok, "documents")
       THEN /\ ScanEnd(p, scan[p], "Failed")
            /\ UNCHANGED documents
       ELSE /\ documents' = Append(documents,
                   [id |-> Len(documents) + 1, userId |-> scan[p].session,
                    filePath |-> scan[p].savedFileName,
                    fileName |-> scan[p].fileName])
            /\ scan' = [scan EXCEPT ![p] =
                   [@ EXCEPT !.pc = "list", !.recorded = TRUE,
                             !.newRow = Len(documents) + 1]]
    /\ UNCHANGED <<credits, requests, files, clock, approve,
                   granted, nScans, nDecides, deductions, users, boot,
                   register, nRegisters>>

\* res.status(200).json({..., creditsLeft: user.credits - 1, matches})
ScanRespond(p, rec) ==
    ScanEnd(p, [rec EXCEPT !.creditsLeft = rec.userCredits - 1], "Completed")

\* SELECT filePath, fileName FROM documents WHERE filePath != ?; with no row
\* the loop is skipped and the response sent, else the first file is opened.
\* (A row keeps its id for the history of the reads; no handler reads it.)
ScanListDocuments(p, ok) ==
    /\ scan[p].pc = "list"
    /\ LET docs == SelectSeq(documents,
                       LAMBDA d : d.filePath # scan[p].savedFileName)
           rec == [scan[p] EXCEPT !.docs = docs, !.matches = <<>>, !.i = 1]
       IN IF ~Ran(ok, "documents") THEN ScanEnd(p, scan[p], "Failed")
          ELSE IF Len(docs) = 0 THEN ScanRespond(p, rec)
          ELSE scan' = [scan EXCEPT ![p] = [rec EXCEPT !.pc = "ropen"]]
    /\ UNCHANGED <<credits, requests, documents, files, clock, approve,
                   granted, nScans, nDecides, deductions, users, boot,
                   register, nRegisters>>

\* The body of the loop for one document, its body read and its similarity
\* computed: the match it pushes.
Matched(doc, similarity, matches) ==
    IF AboveThreshold(similarity)
    THEN Append(matches, [fileName |-> doc.fileName,
                          similarity |-> ToFixedPercent(similarity)])
    ELSE matches

Compare(text, doc, existingText, matches) ==
    Matched(doc, calculateSimilarity(text, existingText), matches)

\* Mutant: a failed read reaches the handler's outer catch.
ReadFailedAborts(rec) == [rec EXCEPT !.pc = "abort"]

\* What a failed read leaves of the scan: the catch inside the loop logs the
\* error and the loop goes on.
ReadFailed(rec) == rec

\* The scan after one turn of the loop, readFile settled and the match
\* kept: the next file is to be opened.
ScanTurned(p, doc, readable, existingText, matches) ==
    [scan[p] EXCEPT
       !.pc = "ropen", !.size = 0, !.buffer = <<>>, !.rejected = FALSE,
       !.matches = matches,
       !.i = @ + 1,
       !.readLog = Append(@, [id |-> doc.id, ok |-> readable,
                              body |-> existingText]),
       !.matchRows = IF Len(matches) > Len(scan[p].matches)
                     THEN Append(@, doc.id) ELSE @]

\* The next file is opened, or after the last document the response is sent.
ScanLoop(p, rec) ==
    IF rec.pc = "abort" THEN ScanEnd(p, rec, "Failed")
    ELSE IF rec.i > Len(rec.docs) THEN ScanRespond(p, rec)
    ELSE scan' = [scan EXCEPT ![p] = rec]

\* readFile has rejected.
ScanReadFailed(p) ==
    ScanLoop(p, ReadFailed(ScanTurned(p, scan[p].docs[scan[p].i], FALSE, <<>>,
                                      scan[p].matches)))

\* readFile has resolved to existingText.
ScanRead(p, existingText) ==
    ScanLoop(p, ScanTurned(p, scan[p].docs[scan[p].i], TRUE, existingText,
                           Compare(scan[p].text, scan[p].docs[scan[p].i],
                                   existingText, scan[p].matches)))

\* fs.promises.readFile(existingFilePath, 'utf8'), the open: it fails when
\* there is no such file; the fstat is issued.
ScanReadOpen(p, ok) ==
    /\ scan[p].pc = "ropen"
    /\ IF ok /\ scan[p].docs[scan[p].i].filePath \in DOMAIN files
       THEN scan' = [scan EXCEPT ![p] = [@ EXCEPT !.pc = "rstat"]]
       ELSE ScanReadFailed(p)
    /\ UNCHANGED <<credits, requests, documents, files, clock, approve,
                   granted, nScans, nDecides, deductions, users, boot,
                   register, nRegisters>>

\* readFile, the fstat: the size of the file as it is now; the read is
\* issued.  After a failure the file is closed before readFile rejects.
ScanReadStat(p, ok) ==
    /\ scan[p].pc = "rstat"
    /\ scan' = [scan EXCEPT ![p] =
           IF ok THEN [@ EXCEPT !.pc = "rread",
                                !.size = Len(files[scan[p].docs[scan[p].i].filePath])]
           ELSE [@ EXCEPT !.pc = "rclose", !.rejected = TRUE]]
    /\ UNCHANGED <<credits, requests, documents, files, clock, approve,
                   granted, nScans, nDecides, deductions, users, boot,
                   register, nRegisters>>

\* readFile, one read at the position of the descriptor.  With a size the
\* one read asks for that many bytes of the file as it is now, and the close
\* is issued; with size 0 the reads go on until one reads nothing.
ScanReadChunk(p, ok) ==
    /\ scan[p].pc = "rread"
    /\ LET body == files[scan[p].docs[scan[p].i].filePath]
           position == Len(scan[p].buffer)
           last == IF scan[p].size > 0 THEN Min2(scan[p].size, Len(body))
                   ELSE Len(body)
           chunk == SubSeq(body, position + 1, last)
       IN scan' = [scan EXCEPT ![p] =
              IF ~ok THEN [@ EXCEPT !.pc = "rclose", !.rejected = TRUE]
              ELSE [@ EXCEPT !.buffer = @ \o chunk,
                             !.pc = IF scan[p].size > 0 \/ Len(chunk) = 0
                                    THEN "rclose" ELSE "rread"]]
    /\ UNCHANGED <<credits, requests, documents, files, clock, approve,
                   granted, nScans, nDecides, deductions, users, boot,
                   register, nRegisters>>

\* readFile, the close: readFile rejects when the fstat, a read or the close
\* failed, else it resolves to the text of the bytes read.
ScanReadClose(p, ok) ==
    /\ scan[p].pc = "rclose"
    /\ IF scan[p].rejected \/ ~ok
       THEN ScanReadFailed(p)
       ELSE ScanRead(p, Utf8Decode(scan[p].buffer))
    /\ UNCHANGED <<credits, requests, documents, files, clock, approve,
                   granted, nScans, nDecides, deductions, users, boot,
                   register, nRegisters>>

\* The promise of fs.promises.writeFile or fs.promises.readFile never settles:
\* the handler stays at its await, which has no timeout, and no code of the
\* request runs again.
ScanStoreNeverSettles(p) ==
    /\ scan[p].pc \in {"open", "write", "close", "ropen", "rstat", "rread",
                       "rclose"}
    /\ scan' = [scan EXCEPT ![p] = [@ EXCEPT !.pc = "awaiting"]]
    /\ UNCHANGED <<credits, requests, documents, files, clock, approve,
                   granted, nScans, nDecides, deductions, users, boot,
                   register, nRegisters>>

\* The steps scan p can take.
ScanStepOf(p) ==
    \E ok \in BOOLEAN :
        \/ ScanCheckCredits(p, ok)
        \/ ScanDeduct(p, ok)
        \/ ScanOpenFile(p, ok)
        \/ \E n \in WriteLengths(p) : ScanWriteFile(p, n, ok)
        \/ ScanCloseFile(p, ok)
        \/ ScanInsertDocument(p, ok)
        \/ ScanListDocuments(p, ok)
        \/ ScanReadOpen(p, ok)
        \/ ScanReadStat(p, ok)
        \/ ScanReadChunk(p, ok)
        \/ ScanReadClose(p, ok)

\* -------------------------------------------------- POST /credits/request
\* !amount || amount < 1
InvalidAmount(amount) == Falsy(amount) \/ LessThan(amount, 1)

\* The status of the response to POST /credits/request.
RequestCreditsStatus(session, amount, ok) ==
    IF session = NoUser THEN 401
    ELSE IF InvalidAmount(amount) THEN 400
    ELSE IF ~Ran(ok, "credit_requests") THEN 500
    ELSE 200

\* The session check, the validation of the amount and the INSERT of a
\* pending request; a refused call and a failed INSERT leave no trace.
RequestCredits(session, amount, ok) ==
    /\ IF session = NoUser \/ InvalidAmount(amount)
          \/ ~Ran(ok, "credit_requests")
       THEN UNCHANGED <<requests, granted>>
       ELSE /\ requests' = Append(requests, [userId |-> session,
                                             amount |-> StoredInteger(amount),
                                             status |-> "pending"])
            /\ granted' = Append(granted, 0)
    /\ UNCHANGED <<credits, documents, files, clock, scan, approve,
                   nScans, nDecides, deductions, users, boot, register,
                   nRegisters>>

\* ------------------------------------- POST /admin/approve-request/:requestId
ApproveEnd(a, rec, outcome) ==
    approve' = [approve EXCEPT ![a] =
        [ApproveIdle EXCEPT !.pc = "done", !.outcome = outcome,
                            !.session = rec.session,
                            !.requestId = rec.requestId,
                            !.seenStatus = rec.seenStatus,
                            !.didGrant = rec.didGrant]]

\* The admin check; the SELECT is issued.
ApproveReceive(a, session, requestId) ==
    /\ approve[a].pc \in {"idle", "done"}
    /\ nDecides' = nDecides + 1
    /\ LET rec == [ApproveIdle EXCEPT !.session = session,
                                      !.requestId = requestId]
       IN IF session = NoUser \/ role[session] # "admin"
          THEN ApproveEnd(a, rec, "Forbidden")
          ELSE approve' = [approve EXCEPT ![a] = [rec EXCEPT !.pc = "select"]]
    /\ UNCHANGED <<credits, requests, documents, files, clock, scan,
                   granted, nScans, deductions, users, boot, register,
                   nRegisters>>

\* SELECT userId, amount FROM credit_requests WHERE id = ?; the UPDATE of the
\* balance is issued when the row exists.
ApproveSelect(a, ok) ==
    /\ approve[a].pc = "select"
    /\ LET id == approve[a].requestId
       IN IF ~Ran(ok, "credit_requests")
          THEN ApproveEnd(a, approve[a], "Failed")
          ELSE IF id \notin DOMAIN requests THEN ApproveEnd(a, approve[a], "NotFound")
          ELSE approve' = [approve EXCEPT ![a] =
                   [@ EXCEPT !.pc = "grant",
                             !.request = [userId |-> requests[id].userId,
                                          amount |-> requests[id].amount],
                             !.seenStatus = requests[id].status]]
    /\ UNCHANGED <<credits, requests, documents, files, clock, scan,
                   granted, nScans, nDecides, deductions, users, boot, register,
                   nRegisters>>

\* UPDATE users SET credits = credits + ? WHERE id = ?; the UPDATE of the
\* status is issued.
ApproveGrant(a, ok) ==
    /\ approve[a].pc = "grant"
    /\ IF ~Ran(ok, "users")
       THEN /\ ApproveEnd(a, approve[a], "Failed")
            /\ UNCHANGED <<credits, granted>>
       ELSE /\ credits' = [credits EXCEPT ![approve[a].request.userId] =
                               @ + SqlNumber(approve[a].request.amount)]
            /\ granted' = [granted EXCEPT ![approve[a].requestId] = @ + 1]
            /\ approve' = [approve EXCEPT ![a] =
                   [@ EXCEPT !.pc = "mark", !.didGrant = TRUE]]
    /\ UNCHANGED <<requests, documents, files, clock, scan,
                   nScans, nDecides, deductions, users, boot, register,
                   nRegisters>>

\* UPDATE credit_requests SET status = 'approved' WHERE id = ?, then the 200.
ApproveMark(a, ok) ==
    /\ approve[a].pc = "mark"
    /\ IF ~Ran(ok, "credit_requests")
       THEN /\ ApproveEnd(a, approve[a], "Failed")
            /\ UNCHANGED requests
       ELSE /\ requests' = [requests EXCEPT ![approve[a].requestId].status =
                                "approved"]
            /\ ApproveEnd(a, approve[a], "Approved")
    /\ UNCHANGED <<credits, documents, files, clock, scan,
                   granted, nScans, nDecides, deductions, users, boot, register,
                   nRegisters>>

\* -------------------------------------- POST /admin/reject-request/:requestId
\* Mutant: the handler without its admin check.
RejectRequestByAnyone(session, requestId, ok) ==
    /\ IF ~Ran(ok, "credit_requests") \/ requestId \notin DOMAIN requests
       THEN UNCHANGED requests
       ELSE requests' = [requests EXCEPT ![requestId].status = "rejected"]
    /\ UNCHANGED <<credits, documents, files, clock, scan, approve,
                   granted, nScans, nDecides, deductions, users, boot, register,
                   nRegisters>>

\* The status of the response to POST /admin/reject-request/:requestId.
RejectRequestStatus(session, ok) ==
    IF session = NoUser \/ role[session] # "admin" THEN 403
    ELSE IF ~Ran(ok, "credit_requests") THEN 500
    ELSE 200

\* The admin check, then UPDATE credit_requests SET status = 'rejected'
\* WHERE id = ?, which changes no row when the id is unknown.
RejectRequest(session, requestId, ok) ==
    /\ IF session = NoUser \/ role[session] # "admin"
          \/ ~Ran(ok, "credit_requests")
          \/ requestId \notin DOMAIN requests
       THEN UNCHANGED requests
       ELSE requests' = [requests EXCEPT ![requestId].status = "rejected"]
    /\ UNCHANGED <<credits, documents, files, clock, scan, approve,
                   granted, nScans, nDecides, deductions, users, boot, register,
                   nRegisters>>

\* --------------------------------------------------- the midnight cron job
\* Mutant: the UPDATE without its WHERE clause.
ResetCreditsOfEveryone(ok) ==
    /\ credits' = IF Ran(ok, "users") THEN [u \in UserIds |-> DefaultCredits]
                  ELSE credits
    /\ resetFrom' = [from |-> credits, done |-> Ran(ok, "users")]
    /\ UNCHANGED <<requests, documents, files, clock, scan, approve,
                   granted, nScans, nDecides, deductions, users, boot, register,
                   nRegisters>>

\* The job at midnight: UPDATE users SET credits = 20 WHERE role = 'user'; a
\* rejected UPDATE is caught and logged, and the balances stay as they were.
ResetCreditsDaily(ok) ==
    /\ credits' = IF Ran(ok, "users")
                  THEN [u \in UserIds |->
                          IF role[u] = "user" THEN DefaultCredits
                          ELSE credits[u]]
                  ELSE credits
    /\ resetFrom' = [from |-> credits, done |-> Ran(ok, "users")]
    /\ UNCHANGED <<requests, documents, files, clock, scan, approve,
                   granted, nScans, nDecides, deductions, users, boot, register,
                   nRegisters>>

\* ------------------------------------------------- calculateSimilarity alone
\* One call of calculateSimilarity(text1, text2) and what it returns.
CalculateSimilarity(text1, text2) ==
    /\ called' = [op |-> "calculateSimilarity", text1 |-> text1, text2 |-> text2,
                  result |-> calculateSimilarity(text1, text2)]
    /\ UNCHANGED <<credits, requests, documents, files, clock, scan, approve,
                   granted, nScans, nDecides, resetFrom, deductions, users, boot, register,
                   nRegisters>>

\* The ids an admin decides on: those of the stored requests and an unknown one.
RequestIds == 1..(Len(requests) + 1)

\* The steps of the scans in flight.
ScanStep ==
    \/ \E p \in ScanSlots, ok \in BOOLEAN : ScanCheckCredits(p, ok)
    \/ \E p \in ScanSlots, ok \in BOOLEAN : ScanDeduct(p, ok)
    \/ \E p \in ScanSlots, ok \in BOOLEAN : ScanOpenFile(p, ok)
    \/ \E p \in ScanSlots, ok \in BOOLEAN :
           \E n \in WriteLengths(p) : ScanWriteFile(p, n, ok)
    \/ \E p \in ScanSlots, ok \in BOOLEAN : ScanCloseFile(p, ok)
    \/ \E p \in ScanSlots, ok \in BOOLEAN : ScanInsertDocument(p, ok)
    \/ \E p \in ScanSlots, ok \in BOOLEAN : ScanListDocuments(p, ok)
    \/ \E p \in ScanSlots, ok \in BOOLEAN : ScanReadOpen(p, ok)
    \/ \E p \in ScanSlots, ok \in BOOLEAN : ScanReadStat(p, ok)
    \/ \E p \in ScanSlots, ok \in BOOLEAN : ScanReadChunk(p, ok)
    \/ \E p \in ScanSlots, ok \in BOOLEAN : ScanReadClose(p, ok)

\* Any step but a run of the job forgets the last run.
NotReset == resetFrom' = <<>>

\* A step that sends no response of a one-step call leaves none to report.
NoCall == called' = <<>>

\* The steps of initializeDatabase.
BootStep ==
    \/ \E ok \in BOOLEAN : BootCreateTable(ok)
    \/ \E ok \in BOOLEAN : BootCreateIndex(ok)
    \/ \E ok \in BOOLEAN, adminPassword \in BOOLEAN :
           BootSelectAdmin(ok, adminPassword)
    \/ \E ok \in BOOLEAN : BootHash(ok)
    \/ \E ok \in BOOLEAN : BootInsertAdmin(ok)

\* The registrations received and their steps.
RegisterStep ==
    \/ \E r \in RegisterSlots, username \in RegisterUsernames,
          email \in RegisterEmails, password \in RegisterPasswords :
           nRegisters < MaxRegisters
           /\ RegisterReceive(r, username, email, password)
    \/ \E r \in RegisterSlots, ok \in BOOLEAN : RegisterSelect(r, ok)
    \/ \E r \in RegisterSlots, ok \in BOOLEAN : RegisterHash(r, ok)
    \/ \E r \in RegisterSlots, ok \in BOOLEAN : RegisterInsert(r, ok)

\* The scans of one user over a corpus of differing texts, one at a time.
NextCorpus ==
    \/ \E p \in CorpusSlots, s \in CorpusSessions,
          t \in CorpusTexts, f \in CorpusFileNames :
           nScans < MaxCorpusScans /\ ScanReceive(p, s, t, f) /\ NotReset /\ NoCall
    \/ ScanStep /\ NotReset /\ NoCall
    \/ Tick /\ NotReset /\ NoCall

SpecCorpus == InitScanning /\ [][NextCorpus]_vars

\* The same with a store whose operations may never complete.
NextStall ==
    \/ NextCorpus
    \/ \E p \in CorpusSlots : ScanStoreNeverSettles(p) /\ NotReset /\ NoCall

SpecStall == InitScanning /\ [][NextStall]_vars

\* Scans in flight together.
NextRace ==
    \/ \E p \in ScanSlots, s \in ScanSessions, t \in Texts, f \in FileNames :
           nScans < MaxRaceScans /\ ScanReceive(p, s, t, f) /\ NotReset /\ NoCall
    \/ ScanStep /\ NotReset /\ NoCall
    \/ Tick /\ NotReset /\ NoCall

SpecRace == InitSpent /\ [][NextRace]_vars

\* Scans in flight together for a user with one credit or none left.
SpecLowCredits ==
    InitWith({<<AdminUser, Bob>>}, {0, ScanCost}) /\ [][NextRace]_vars

\* Two scans in flight together for a user down to the last credit.
SpecLastCredit ==
    InitWith({<<AdminUser, Bob>>}, {ScanCost}) /\ [][NextRace]_vars

\* The calls that leave something behind: a row, or a balance changed.
Calls == nScans + nDecides + Len(requests)

\* Every handler of a logged-in session, with at most maxCalls calls that
\* leave something behind.
Handlers(maxCalls) ==
    \/ \E p \in LedgerSlots, s \in ScanSessions, t \in Texts, f \in FileNames :
           Calls < maxCalls /\ ScanReceive(p, s, t, f) /\ NotReset /\ NoCall
    \/ ScanStep /\ NotReset /\ NoCall
    \/ Tick /\ NotReset /\ NoCall
    \/ \E s \in RequestSessions, n \in Amounts, ok \in BOOLEAN :
           Calls < maxCalls /\ RequestCredits(s, n, ok) /\ NotReset /\ NoCall
    \/ \E a \in ApproveSlots, s \in DecideSessions, r \in RequestIds :
           Calls < maxCalls /\ ApproveReceive(a, s, r) /\ NotReset /\ NoCall
    \/ \E a \in ApproveSlots, ok \in BOOLEAN : ApproveSelect(a, ok) /\ NotReset /\ NoCall
    \/ \E a \in ApproveSlots, ok \in BOOLEAN : ApproveGrant(a, ok) /\ NotReset /\ NoCall
    \/ \E a \in ApproveSlots, ok \in BOOLEAN : ApproveMark(a, ok) /\ NotReset /\ NoCall
    \/ \E s \in DecideSessions, r \in RequestIds, ok \in BOOLEAN :
           RejectRequest(s, r, ok) /\ NotReset /\ NoCall

\* The credit requests and the approve calls received so far.
DeskCalls == nDecides + Len(requests)

\* Two scans of a user received in the same millisecond, in flight together
\* with the credit requests and the approve calls, and no daily reset.
NextLedger ==
    \/ \E p \in ScanSlots, s \in CorpusSessions, f \in CorpusFileNames :
           scan[p].pc = "idle" /\ ScanReceive(p, s, TextA, f) /\ NotReset /\ NoCall
    \/ ScanStep /\ NotReset /\ NoCall
    \/ \E s \in RequestSessions, n \in Amounts, ok \in BOOLEAN :
           DeskCalls < MaxDayCalls /\ RequestCredits(s, n, ok) /\ NotReset /\ NoCall
    \/ \E a \in ApproveSlots, s \in DecideSessions, r \in RequestIds :
           DeskCalls < MaxDayCalls /\ ApproveReceive(a, s, r) /\ NotReset /\ NoCall
    \/ \E a \in ApproveSlots, ok \in BOOLEAN : ApproveSelect(a, ok) /\ NotReset /\ NoCall
    \/ \E a \in ApproveSlots, ok \in BOOLEAN : ApproveGrant(a, ok) /\ NotReset /\ NoCall
    \/ \E a \in ApproveSlots, ok \in BOOLEAN : ApproveMark(a, ok) /\ NotReset /\ NoCall

SpecLedger == InitScanning /\ [][NextLedger]_vars

\* Every handler and the cron job, with an admin and a user in the table.
NextDay ==
    \/ Handlers(MaxDayCalls)
    \/ \E ok \in BOOLEAN : ResetCreditsDaily(ok) /\ NoCall

SpecDay == InitScanning /\ [][NextDay]_vars

\* The program from its start: initializeDatabase, the registrations, every
\* handler and the cron job, whose midnight falls after the start-up.
Next ==
    \/ BootStep /\ NotReset /\ NoCall
    \/ RegisterStep /\ NotReset
    \/ Handlers(MaxDayCalls)
    \/ \E ok \in BOOLEAN : boot.pc = "done" /\ ResetCreditsDaily(ok) /\ NoCall

Spec == Init /\ [][Next]_vars

\* The credit request handlers alone, with the calls that are refused.
NextDesk ==
    \/ \E s \in RequestSessions, n \in BodyAmounts, ok \in BOOLEAN :
           /\ Calls < MaxCalls
           /\ RequestCredits(s, n, ok)
           /\ called' = [op |-> "requestCredits", session |-> s, amount |-> n,
                         status |-> RequestCreditsStatus(s, n, ok)]
           /\ NotReset
    \/ \E a \in ApproveSlots, s \in DecideSessions, r \in RequestIds :
           Calls < MaxCalls /\ ApproveReceive(a, s, r) /\ NotReset /\ NoCall
    \/ \E a \in ApproveSlots, ok \in BOOLEAN : ApproveSelect(a, ok) /\ NotReset /\ NoCall
    \/ \E a \in ApproveSlots, ok \in BOOLEAN : ApproveGrant(a, ok) /\ NotReset /\ NoCall
    \/ \E a \in ApproveSlots, ok \in BOOLEAN : ApproveMark(a, ok) /\ NotReset /\ NoCall
    \/ \E s \in DecideSessions, r \in RequestIds, ok \in BOOLEAN :
           /\ RejectRequest(s, r, ok)
           /\ called' = [op |-> "rejectRequest", session |-> s, requestId |-> r,
                         status |-> RejectRequestStatus(s, ok)]
           /\ NotReset

SpecDesk == InitStarted /\ [][NextDesk]_vars

\* calculateSimilarity called with every pair of short texts.
NextSimilarity ==
    \E text1 \in SimilarityTexts, text2 \in SimilarityTexts :
        CalculateSimilarity(text1, text2)

SpecSimilarity == Init /\ [][NextSimilarity]_vars

\* ------------------------------------------------------------------ claims
Ended(p) == scan[p].pc = "done"
Completed(p) == Ended(p) /\ scan[p].outcome = "Completed"
Range(seq) == {seq[k] : k \in 1..Len(seq)}

\* C1: in every reachable state every user's balance is an integer >= 0.
C1_CreditsNeverNegative == \A u \in UserIds : credits[u] \in Nat

\* C2: of two scans submitted together by a user whose balance is 1, once
\* both have ended without a fault, exactly one has succeeded, the other was
\* refused for insufficient credit, and the balance is 0.
C2_LastCreditSpentOnce ==
    \A u \in UserIds :
        (/\ nScans = 2
         /\ \A p \in ScanSlots :
                Ended(p) /\ scan[p].session = u
                         /\ scan[p].outcome \in {"Completed", "Rejected"})
        => /\ \E p \in ScanSlots : /\ scan[p].outcome = "Completed"
                                   /\ \A q \in ScanSlots \ {p} :
                                          scan[q].outcome = "Rejected"
           /\ credits[u] = 0

\* C3: the amount of a credit request is granted at most once, and an approve
\* call that finds the request already decided grants nothing and is refused.
C3_GrantedAtMostOnce ==
    /\ \A r \in DOMAIN granted : granted[r] <= 1
    /\ \A a \in ApproveSlots :
          approve[a].seenStatus \in {"approved", "rejected"}
          => /\ ~approve[a].didGrant
             /\ approve[a].pc = "done"
                => approve[a].outcome \in {"NotFound", "InvalidState", "Failed"}

\* C4: a credit request starts pending, and once it is approved or rejected
\* no step changes its status or grants its amount.
C4_DecidedIsFinal ==
    [][/\ \A r \in DOMAIN requests' \ DOMAIN requests :
              requests'[r].status = "pending"
       /\ \A r \in DOMAIN requests :
              requests[r].status # "pending"
              => /\ requests'[r].status = requests[r].status
                 /\ granted'[r] = granted[r]]_vars

\* C5: once a scan has ended, its credit is deducted if and only if its
\* Document is recorded.
C5_DeductionMatchesDocument ==
    \A p \in ScanSlots : Ended(p) => (scan[p].deducted <=> scan[p].recorded)

\* A run of the daily job has left every balance of role 'user' at 20 and has
\* changed no admin's balance, no document, no stored body and no credit
\* request.
ResetDone ==
    /\ \A u \in UserIds : role[u] = "user" => credits'[u] = 20
    /\ \A u \in UserIds : role[u] = "admin" => credits'[u] = credits[u]
    /\ documents' = documents
    /\ files' = files
    /\ requests' = requests

\* C6 as stated: every run of resetCreditsDaily sets the balance of every user
\* of role 'user' to exactly 20, whatever it was, and leaves the balance of
\* every admin, the documents and the credit requests unchanged.
C6_ResetSetsTwenty == [][resetFrom' # <<>> => ResetDone]_vars

\* C6, amended: a run of resetCreditsDaily whose UPDATE is carried out sets the
\* balance of every user of role 'user' to exactly 20, whatever it was, and
\* leaves the balance of every admin, the documents, the stored bodies and the
\* credit requests unchanged; a run whose UPDATE is rejected changes no
\* balance, no document and no credit request.
C6_ResetFrame ==
    [][resetFrom' # <<>>
       => IF resetFrom'.done THEN ResetDone
          ELSE /\ credits' = credits
               /\ documents' = documents
               /\ files' = files
               /\ requests' = requests]_vars

\* A run of the job has just replaced a user's balance other than 20 and kept
\* the admin's, with a document and a credit request stored.
C6_Witness ==
    /\ resetFrom # <<>>
    /\ resetFrom.done
    /\ \E u \in UserIds : /\ role[u] = "user"
                          /\ resetFrom.from[u] # 20
                          /\ credits[u] = 20
    /\ \E u \in UserIds : /\ role[u] = "admin"
                          /\ credits[u] = resetFrom.from[u]
    /\ Len(documents) > 0
    /\ Len(requests) > 0

\* C7: the step in which a scan ends with ValidationError or Rejected changes
\* no balance, no Document record and no stored body, and no earlier step of
\* that scan has changed one.
C7_RefusedScanHasNoEffect ==
    [][\A p \in ScanSlots :
           (/\ scan'[p] # scan[p]
            /\ scan'[p].pc = "done"
            /\ scan'[p].outcome \in {"ValidationError", "Rejected"})
           => /\ credits' = credits
              /\ documents' = documents
              /\ files' = files
              /\ ~scan'[p].deducted
              /\ ~scan'[p].wrote
              /\ ~scan'[p].recorded]_vars

\* One scan was refused for insufficient credit and another for its input.
C7_Witness ==
    \E p, q \in ScanSlots :
        /\ Ended(p) /\ scan[p].outcome = "Rejected"
        /\ scan[p].session \in UserIds /\ role[scan[p].session] = "user"
        /\ Ended(q) /\ scan[q].outcome = "ValidationError"

\* The match list of a scan over the documents whose read succeeded, in the
\* order of the reads.
KeptReads(rec) ==
    SelectSeq(rec.readLog,
              LAMBDA e : LET sim == calculateSimilarity(rec.text, e.body)
                         IN e.ok /\ 5 * sim[1] > 3 * sim[2])

MatchesWithoutFailedReads(rec, table) ==
    LET kept == KeptReads(rec)
    IN [k \in 1..Len(kept) |->
           [fileName |-> table[kept[k].id].fileName,
            similarity |-> ToFixedPercent(
                               calculateSimilarity(rec.text, kept[k].body))]]

\* The positions of a scan in the comparison loop.
ReadSteps == {"ropen", "rstat", "rread", "rclose"}

\* C8: a step of the comparison loop never ends the scan with a failure, and
\* a scan that ends Completed has its document stored and recorded and
\* returns the matches of the documents whose read did not fail, each
\* document of the corpus having been read once, in order.
C8_ReadFailureSkipsOneDocument ==
    [][\A p \in ScanSlots :
           (scan[p].pc \in ReadSteps /\ scan'[p] # scan[p])
           => /\ scan'[p].pc \in ReadSteps \/ scan'[p].outcome = "Completed"
              /\ scan'[p].outcome = "Completed"
                 => /\ scan'[p].newRow \in DOMAIN documents'
                    /\ documents'[scan'[p].newRow].filePath
                           = scan'[p].savedFileName
                    /\ scan'[p].savedFileName \in DOMAIN files'
                    /\ [k \in 1..Len(scan'[p].readLog) |->
                           scan'[p].readLog[k].id]
                         = [k \in 1..Len(scan'[p].docs) |-> scan'[p].docs[k].id]
                    /\ scan'[p].matches
                         = MatchesWithoutFailedReads(scan'[p], documents')]_vars

\* A scan has completed over several documents, the read of one of which failed,
\* and has matched another.
C8_Witness ==
    \E p \in ScanSlots :
        /\ Completed(p)
        /\ \E k \in 1..Len(scan[p].readLog) : ~scan[p].readLog[k].ok
        /\ \E k \in 1..Len(scan[p].readLog) : scan[p].readLog[k].ok
        /\ Len(scan[p].matches) > 0
        /\ Len(scan[p].matches) < Len(scan[p].docs)

\* The reads of document d by scan p that succeeded with a similarity
\* strictly above 3/5.
SimilarReads(p, d) ==
    {k \in 1..Len(scan[p].readLog) :
        LET e == scan[p].readLog[k]
            sim == calculateSimilarity(scan[p].text, e.body)
        IN e.id = d /\ e.ok /\ 5 * sim[1] > 3 * sim[2]}

\* C9: in a Completed scan a document recorded before the new one is in the
\* match list if and only if its body was read and its similarity to the
\* submitted text is strictly greater than 0.6; 0.60 is not above the
\* threshold and 0.61 is.
C9_MatchIffStrictlyAbove ==
    /\ ~AboveThreshold(<<60, 100>>)
    /\ AboveThreshold(<<61, 100>>)
    /\ \A p \in ScanSlots :
          Completed(p)
          => \A d \in 1..(scan[p].newRow - 1) :
                 d \in Range(scan[p].matchRows) <=> SimilarReads(p, d) # {}

\* A completed scan has read one document at similarity exactly 3/5, left out
\* of the matches, and one at 4/5, kept.
C9_Witness ==
    \E p \in ScanSlots :
        /\ Completed(p)
        /\ \E k, j \in 1..Len(scan[p].readLog) :
              LET ek == scan[p].readLog[k]
                  ej == scan[p].readLog[j]
              IN /\ ek.ok /\ ej.ok
                 /\ calculateSimilarity(scan[p].text, ek.body) = <<3, 5>>
                 /\ ek.id \notin Range(scan[p].matchRows)
                 /\ calculateSimilarity(scan[p].text, ej.body) = <<4, 5>>
                 /\ ej.id \in Range(scan[p].matchRows)

\* Document d, recorded before scan p's own, holds a body identical to the
\* text p submitted, and no read of it failed.
IdenticalStored(p, d) ==
    IF \E k \in 1..Len(scan[p].readLog) : scan[p].readLog[k].id = d
    THEN \E k \in 1..Len(scan[p].readLog) :
             /\ scan[p].readLog[k].id = d
             /\ scan[p].readLog[k].ok
             /\ scan[p].readLog[k].body = scan[p].text
    ELSE /\ documents[d].filePath \in DOMAIN files
         /\ Utf8Decode(files[documents[d].filePath]) = scan[p].text

\* C10: a Completed scan whose text is identical to the body of a document
\* already stored lists that document with 100.00%.
C10_IdenticalIsFullMatch ==
    \A p \in ScanSlots :
        Completed(p)
        => \A d \in 1..(scan[p].newRow - 1) :
               IdenticalStored(p, d)
               => \E j \in 1..Len(scan[p].matchRows) :
                      /\ scan[p].matchRows[j] = d
                      /\ scan[p].matches[j].similarity = "100.00%"

\* The Levenshtein distance by its definition: the least number of insertions,
\* deletions and substitutions of one character that turn a into b.
RECURSIVE EditDistance(_, _)
EditDistance(a, b) ==
    IF Len(a) = 0 THEN Len(b)
    ELSE IF Len(b) = 0 THEN Len(a)
    ELSE LET a0 == SubSeq(a, 1, Len(a) - 1)
             b0 == SubSeq(b, 1, Len(b) - 1)
             same == IF a[Len(a)] = b[Len(b)] THEN 0 ELSE 1
         IN Min2(EditDistance(a0, b0) + same,
                 Min2(EditDistance(a0, b) + 1, EditDistance(a, b0) + 1))

SimilarityCalled == called # <<>> /\ called.op = "calculateSimilarity"

\* C11: calculateSimilarity(a, b) is 0 when a or b is empty, also when both
\* are, and otherwise equals 1 - editDistance(a, b) / max(len(a), len(b)) with
\* the Levenshtein distance; the result lies in [0, 1].
C11_SimilarityIsNormalisedDistance ==
    SimilarityCalled
    => LET a == called.text1
           b == called.text2
           num == called.result[1]
           den == called.result[2]
           longer == IF Len(a) > Len(b) THEN Len(a) ELSE Len(b)
       IN /\ den > 0 /\ 0 <= num /\ num <= den
          /\ (Len(a) = 0 \/ Len(b) = 0) => num = 0
          /\ (Len(a) > 0 /\ Len(b) > 0)
             => num * longer = (longer - EditDistance(a, b)) * den

\* calculateSimilarity has returned 0 for two empty texts.
C11_Witness ==
    /\ SimilarityCalled
    /\ called.text1 = <<>> /\ called.text2 = <<>>
    /\ called.result[1] = 0

\* C12: no two Document records have the same storage key, also when two
\* scans take their time stamp in the same tick and supply the same file name.
C12_StorageKeysUnique ==
    \A d, e \in DOMAIN documents :
        d # e => documents[d].filePath # documents[e].filePath

IsAdmin(session) == session # NoUser /\ role[session] = "admin"

\* C13: an approve or reject call by a caller who is not an admin, or is not
\* logged in, is refused, and the step that answers it changes no balance and
\* no credit request; such an approve call never gets to grant.
C13_NonAdminDecisionRefused ==
    [][/\ \A a \in ApproveSlots :
              (approve'[a] # approve[a] /\ ~IsAdmin(approve'[a].session))
              => /\ approve'[a].pc = "done"
                 /\ approve'[a].outcome = "Forbidden"
                 /\ ~approve'[a].didGrant
                 /\ credits' = credits
                 /\ requests' = requests
       /\ (/\ called' # <<>>
           /\ called'.op = "rejectRequest"
           /\ ~IsAdmin(called'.session))
          => /\ called'.status = 403
             /\ credits' = credits
             /\ requests' = requests]_vars

\* A user who is not an admin has been refused the approval of a pending
\* request and has just been refused its rejection.
C13_Witness ==
    /\ called # <<>>
    /\ called.op = "rejectRequest"
    /\ called.session \in UserIds
    /\ role[called.session] = "user"
    /\ called.status = 403
    /\ called.requestId \in DOMAIN requests
    /\ requests[called.requestId].status = "pending"
    /\ \E a \in ApproveSlots :
           /\ approve[a].pc = "done"
           /\ approve[a].session = called.session
           /\ approve[a].outcome = "Forbidden"
           /\ approve[a].requestId = called.requestId

\* C14: requestCredits with an amount below 1 is refused with a validation
\* error and stores no request; every stored request has an amount that is a
\* number greater than 0; every request newly stored is pending.
C14_StoredAmountsPositive ==
    [][/\ (/\ called' # <<>>
           /\ called'.op = "requestCredits"
           /\ called'.session # NoUser
           /\ LessThan(called'.amount, 1))
          => /\ called'.status = 400
             /\ requests' = requests
       /\ \A r \in DOMAIN requests' :
              /\ IsNumber(requests'[r].amount)
              /\ requests'[r].amount.number > 0
       /\ \A r \in DOMAIN requests' \ DOMAIN requests :
              requests'[r].status = "pending"]_vars

\* C15: the creditsLeft a Completed scan returns is the stored balance of its
\* user right after the scan's own deduction, whatever took effect between
\* the scan's read of the balance and its deduction.
C15_CreditsLeftIsBalance ==
    \A p \in ScanSlots :
        Completed(p) => scan[p].creditsLeft = scan[p].balanceAfter

\* C16: when the opening, a write or the close of the file or the insertion
\* of the Document fails,
\* the scan ends Failed in that step, the step gives no credit back, so the
\* balance is one lower than the scan found it, and no Document is recorded
\* for the scan.
C16_StorageFailureKeepsDeduction ==
    [][\A p \in ScanSlots :
           (scan[p].pc \in {"open", "write", "close", "insert"}
            /\ scan'[p].pc = "done")
           => /\ scan'[p].outcome = "Failed"
              /\ credits' = credits
              /\ credits'[scan[p].session] = scan[p].userCredits - ScanCost
              /\ documents' = documents
              /\ scan'[p].deducted
              /\ ~scan'[p].recorded]_vars

\* A scan has ended Failed after its deduction, with no Document recorded for
\* it, and the balance is lower than it started.
C16_Witness ==
    \E p \in ScanSlots :
        /\ Ended(p)
        /\ scan[p].outcome = "Failed"
        /\ scan[p].deducted
        /\ ~scan[p].recorded
        /\ nScans = 1
        /\ Len(documents) = 0
        /\ credits[scan[p].session] = DefaultCredits - ScanCost

\* C17: once an approve call that has granted the amount has ended, whether
\* its status update succeeded or failed, the request is no longer pending,
\* so that it cannot be approved and granted again.
C17_GrantAndStatusAreAUnit ==
    \A a \in ApproveSlots :
        (approve[a].pc = "done" /\ approve[a].didGrant)
        => requests[approve[a].requestId].status # "pending"

\* C18: the body stored under the storage key of a recorded Document stays
\* stored, unchanged, in every later step.
C18_StoredBodyIsKept ==
    [][\A d \in DOMAIN documents :
           documents[d].filePath \in DOMAIN files
           => /\ documents[d].filePath \in DOMAIN files'
              /\ files'[documents[d].filePath] = files[documents[d].filePath]]_vars

\* C19: no scan request hangs: a request that has been received and has not
\* ended can take a step towards its outcome, also when a read or a write of
\* the store never completes.
C19_NoScanHangs ==
    \A p \in ScanSlots :
        scan[p].pc \notin {"idle", "done"} => ENABLED ScanStepOf(p)

\* The credits granted to user u: the amount of each of its requests, as many
\* times as it was granted.
RECURSIVE GrantedUpTo(_, _)
GrantedUpTo(u, r) ==
    IF r = 0 THEN 0
    ELSE GrantedUpTo(u, r - 1)
           + (IF requests[r].userId = u
              THEN granted[r] * SqlNumber(requests[r].amount) ELSE 0)

\* The balance user u was created with.
CreatedWith(u) == IF role[u] = "admin" THEN AdminCredits ELSE DefaultCredits

\* User u has a scan between its credit check and its UPDATE of the balance.
DeductionPending(u) ==
    \E p \in ScanSlots : scan[p].pc = "deduct" /\ scan[p].session = u

\* The scans of user u that passed the credit check: their SELECT returned a
\* balance of at least one credit.  Each request slot has held one scan at
\* most.
PassedCheck(u) ==
    {p \in ScanSlots : /\ scan[p].session = u
                       /\ scan[p].pc \notin {"idle", "check"}
                       /\ scan[p].userCredits >= ScanCost}

====
